---- MODULE Spec2Model ----
(***************************************************************************)
(* Model of camply/notifications/pushbullet.py: PushbulletNotifications.   *)
(*                                                                         *)
(* Python values are tagged records (PyNone, PyStr, PyInt, PyDatetime),    *)
(* dicts are functions from key strings to values, text is a TLA+ string   *)
(* handled character by character with Len, SubSeq and \o.                 *)
(*                                                                         *)
(* Each call starts a fresh record of what it did: posts, replies, trace   *)
(* and outcome describe the current (or last) call only. send_message and  *)
(* send_campsites are static methods; they run here once a sender has been *)
(* constructed, which is how camply uses a notification channel.           *)
(***************************************************************************)
EXTENDS Integers, Sequences, FiniteSets, TLC

VARIABLES
    API_TOKEN,    \* PushbulletConfig.API_TOKEN
    API_HEADERS,  \* PushbulletConfig.API_HEADERS (a dict object shared by all calls)
    sender,       \* result of the last construction: "none", "ok", "failed"
    pc,           \* "idle", or "campsites" while send_campsites is inside its for loop
    call,         \* the current (or last) call and its arguments
    idx,          \* send_campsites: 1-based position of the for loop in the batch
    posts,        \* requests.post calls issued by the current (or last) call, in order
    replies,      \* what each of these requests.post calls came back with
    trace,        \* events of the current (or last) call, in program order
    outcome       \* how the last call ended: a return or a raised exception

vars == <<API_TOKEN, API_HEADERS, sender, pc, call, idx, posts, replies, trace, outcome>>

-----------------------------------------------------------------------------
(* Python values *)

PyNone == [t |-> "None"]

PyStr(s) == [t |-> "str", s |-> s]

PyInt(n) == [t |-> "int", n |-> n]

PyDatetime(y, m, d) == [t |-> "datetime", year |-> y, month |-> m, day |-> d]

-----------------------------------------------------------------------------
(* Text *)

Lower == "abcdefghijklmnopqrstuvwxyz"

Upper == "ABCDEFGHIJKLMNOPQRSTUVWXYZ"

Digits == "0123456789"

CharAt(s, i) == SubSeq(s, i, i)

\* position of the first character c in s, 0 when absent
IndexIn(c, s) ==
    LET hits == {i \in 1..Len(s) : CharAt(s, i) = c}
    IN  IF hits = {} THEN 0 ELSE CHOOSE i \in hits : \A j \in hits : i <= j

IsCased(c) == IndexIn(c, Lower) > 0 \/ IndexIn(c, Upper) > 0

ToUpper(c) == IF IndexIn(c, Lower) > 0 THEN CharAt(Upper, IndexIn(c, Lower)) ELSE c

ToLower(c) == IF IndexIn(c, Upper) > 0 THEN CharAt(Lower, IndexIn(c, Upper)) ELSE c

\* str.replace(old, new) for a one-character old
RECURSIVE StrReplace(_, _, _)
StrReplace(s, old, new) ==
    IF s = "" THEN ""
    ELSE (IF CharAt(s, 1) = old THEN new ELSE CharAt(s, 1))
         \o StrReplace(SubSeq(s, 2, Len(s)), old, new)

\* str.title(): a cased character is upper-cased when it follows an uncased
\* character (or starts the string) and lower-cased otherwise
RECURSIVE TitleFrom(_, _)
TitleFrom(s, i) ==
    IF i > Len(s) THEN ""
    ELSE LET c == CharAt(s, i)
             start == i = 1 \/ ~IsCased(CharAt(s, i - 1))
         IN  (IF start THEN ToUpper(c) ELSE ToLower(c)) \o TitleFrom(s, i + 1)

StrTitle(s) == TitleFrom(s, 1)

Digit(n) == CharAt(Digits, n + 1)

\* str(n) for a natural number
RECURSIVE IntToStr(_)
IntToStr(n) == IF n < 10 THEN Digit(n) ELSE IntToStr(n \div 10) \o Digit(n % 10)

\* decimal rendering zero-padded to a width of w
RECURSIVE ZeroPad(_, _)
ZeroPad(s, w) == IF Len(s) >= w THEN s ELSE ZeroPad("0" \o s, w)

\* sep.join(parts)
RECURSIVE StrJoin(_, _)
StrJoin(parts, sep) ==
    IF parts = <<>> THEN ""
    ELSE IF Len(parts) = 1 THEN parts[1]
    ELSE parts[1] \o sep \o StrJoin(Tail(parts), sep)

-----------------------------------------------------------------------------
(* Python values rendered as text *)

\* datetime.strftime("%Y-%m-%d")
Strftime(d) ==
    ZeroPad(IntToStr(d.year), 4) \o "-" \o ZeroPad(IntToStr(d.month), 2)
        \o "-" \o ZeroPad(IntToStr(d.day), 2)

\* format(value, ""), what an f-string replacement field {value} produces
Format(v) ==
    CASE v.t = "str" -> v.s
      [] v.t = "int" -> IntToStr(v.n)
      [] v.t = "None" -> "None"
      [] v.t = "datetime" -> Strftime(v) \o " 00:00:00"

-----------------------------------------------------------------------------
(* dicts *)

EmptyDict == [k \in {} |-> PyNone]

DictSet(d, key, value) == [k \in DOMAIN d \cup {key} |-> IF k = key THEN value ELSE d[k]]

DictGet(d, key, default) == IF key \in DOMAIN d THEN d[key] ELSE default

DictDel(d, key) == [k \in DOMAIN d \ {key} |-> d[k]]

-----------------------------------------------------------------------------
(* Configuration and collaborators *)

PUSHBULLET_API_ENDPOINT == "https://api.pushbullet.com/v2/pushes"

BaseHeaders == [k \in {"Content-Type"} |-> PyStr("application/json")]

Tokens == {PyNone, PyStr(""), PyStr("o.Tk1")}

BOOKING_URL == "booking_url"

BOOKING_DATE == "booking_date"

BOOKING_END_DATE == "booking_end_date"

\* campsite.dict().items(): the record as an ordered mapping
AvailableCampsite(id, date, end, nights, site, area, facility, url) ==
    << [key |-> "campsite_id", value |-> PyInt(id)],
       [key |-> "booking_date", value |-> date],
       [key |-> "booking_end_date", value |-> end],
       [key |-> "booking_nights", value |-> PyInt(nights)],
       [key |-> "campsite_site_name", value |-> PyStr(site)],
       [key |-> "recreation_area", value |-> PyStr(area)],
       [key |-> "facility_name", value |-> PyStr(facility)],
       [key |-> "booking_url", value |-> PyStr(url)] >>

\* campsite.<name>
Attr(campsite, name) ==
    campsite[CHOOSE i \in 1..Len(campsite) : campsite[i].key = name].value

-----------------------------------------------------------------------------
(* Outcomes of a call, and what the network answers to a POST *)

NoResponse == [t |-> "Response", status |-> 0, text |-> ""]

Response(status, text) == [t |-> "Response", status |-> status, text |-> text]

NoOutcome == [kind |-> "none", exc |-> "", msg |-> "", cause |-> "", value |-> PyNone]

Return(value) == [kind |-> "return", exc |-> "", msg |-> "", cause |-> "", value |-> value]

Raise(exc, msg, cause) ==
    [kind |-> "raise", exc |-> exc, msg |-> msg, cause |-> cause, value |-> PyNone]

Responses ==
    { Response(200, "{}"),
      Response(304, ""),
      Response(401, "Access token is missing or invalid."),
      Response(500, "") }

TransportErrors == {"requests.ConnectionError"}

\* what requests.post does: it returns a response or raises a transport error
NetResults ==
    { [exc |-> "", response |-> r] : r \in Responses }
        \cup { [exc |-> e, response |-> NoResponse] : e \in TransportErrors }

-----------------------------------------------------------------------------
(* __init__ *)

WarningMessage == "Pushbullet is not configured properly."

\* variant: only an absent token is rejected
TokenIsNone(token) == token = PyNone

TokenMissing(token) == token = PyNone \/ token = PyStr("")

InitEvents == <<"log.error", "raise">>

Init__(token) ==
    IF TokenMissing(token)
    THEN [trace |-> InitEvents, outcome |-> Raise("EnvironmentError", WarningMessage, "")]
    ELSE [trace |-> <<"return">>, outcome |-> Return(PyNone)]

-----------------------------------------------------------------------------
(* send_message *)

\* the headers of the request: a copy of the configured ones plus the token
PushbulletHeaders(headers, token) == DictSet(headers, "Access-Token", token)

\* variant: the token is written into the configured dict itself (no copy)
ConfigHeadersUpdated(headers, token) == DictSet(headers, "Access-Token", token)

\* the configured header dict after the request headers were built from a copy
ConfigHeadersAfter(headers, token) == headers

\* the keyword arguments left after kwargs.pop("type", ...) and kwargs.pop("title", ...)
ExtraOptions(kwargs) == DictDel(DictDel(kwargs, "type"), "title")

\* dict(type=..., title=..., body=..., **kwargs) raises TypeError when a key of
\* kwargs repeats one of the three keywords
JsonCollides(kwargs) == DOMAIN ExtraOptions(kwargs) \cap {"type", "title", "body"} # {}

\* variant: the extra options are left out of the payload
MessageJsonNoExtras(message, kwargs) ==
    [k \in {"type", "title", "body"} |->
        CASE k = "type" -> DictGet(kwargs, "type", PyStr("note"))
          [] k = "title" -> DictGet(kwargs, "title", PyStr("Camply Notification"))
          [] k = "body" -> PyStr(message)]

MessageJson(message, kwargs) ==
    LET message_type == DictGet(kwargs, "type", PyStr("note"))
        message_title == DictGet(kwargs, "title", PyStr("Camply Notification"))
        extra == ExtraOptions(kwargs)
    IN  [k \in {"type", "title", "body"} \cup DOMAIN extra |->
            CASE k = "type" -> message_type
              [] k = "title" -> message_title
              [] k = "body" -> PyStr(message)
              [] OTHER -> extra[k]]

Request(headers, json) == [url |-> PUSHBULLET_API_ENDPOINT, headers |-> headers, json |-> json]

\* Response.raise_for_status(): HTTPError for a 4xx or 5xx status
RaisesForStatus(response) == 400 <= response.status /\ response.status < 600

\* variant: the HTTP error is re-raised without the warning
HTTPErrorEventsSilent == <<"raise">>

HTTPErrorEvents == <<"log.warning", "raise">>

\* variant: the error carries the status instead of the response text
DeliveryErrorFromStatus(response) ==
    Raise("ConnectionError", IntToStr(response.status), "requests.HTTPError")

DeliveryError(response) == Raise("ConnectionError", response.text, "requests.HTTPError")

\* one call of send_message: the requests it issues, its events in program
\* order, its outcome and the configured headers it leaves behind
SendMessage(message, kwargs, headers, token, net) ==
    IF "message" \in DOMAIN kwargs
    THEN [posts |-> <<>>, replies |-> <<>>, trace |-> <<"raise">>, headers |-> headers,
          outcome |-> Raise("TypeError", "multiple values for argument 'message'", "")]
    ELSE IF JsonCollides(kwargs)
    THEN [posts |-> <<>>, replies |-> <<>>, trace |-> <<"raise">>,
          headers |-> ConfigHeadersAfter(headers, token),
          outcome |-> Raise("TypeError", "multiple values for keyword argument", "")]
    ELSE LET request == Request(PushbulletHeaders(headers, token), MessageJson(message, kwargs))
             after == ConfigHeadersAfter(headers, token)
         IN  IF net.exc # ""
             THEN [posts |-> <<request>>, replies |-> <<net>>,
                   trace |-> <<"log.debug", "post", "raise">>,
                   headers |-> after, outcome |-> Raise(net.exc, "", "")]
             ELSE IF RaisesForStatus(net.response)
             THEN [posts |-> <<request>>, replies |-> <<net>>,
                   trace |-> <<"log.debug", "post">> \o HTTPErrorEvents,
                   headers |-> after, outcome |-> DeliveryError(net.response)]
             ELSE [posts |-> <<request>>, replies |-> <<net>>,
                   trace |-> <<"log.debug", "post", "return">>,
                   headers |-> after, outcome |-> Return(net.response)]

-----------------------------------------------------------------------------
(* send_campsites *)

\* the label a field is rendered under, before formatting
FieldKey(key) == IF key = BOOKING_URL THEN "booking_link" ELSE key

\* the value a field is rendered with
FieldValue(key, value) ==
    IF key # BOOKING_URL /\ key \in {BOOKING_DATE, BOOKING_END_DATE}
    THEN PyStr(Strftime(value))
    ELSE value

\* variant: str.capitalize() in place of str.title()
FormattedKeyCapitalized(key) ==
    LET spaced == StrReplace(key, "_", " ")
    IN  ToUpper(CharAt(spaced, 1)) \o SubSeq(spaced, 2, Len(spaced))

FormattedKey(key) == StrTitle(StrReplace(key, "_", " "))

FieldLine(item) ==
    FormattedKey(FieldKey(item.key)) \o ": " \o Format(FieldValue(item.key, item.value))

\* the list `fields` after the inner loop over campsite.dict().items()
Fields(campsite) == [i \in 1..Len(campsite) |-> FieldLine(campsite[i])]

\* variant: the fields are joined with ", "
ComposedMessageCommas(campsite) == StrJoin(Fields(campsite), ", ")

ComposedMessage(campsite) == StrJoin(Fields(campsite), "\n")

MessageTitle(campsite) ==
    Format(Attr(campsite, "recreation_area")) \o " | "
        \o Format(Attr(campsite, "facility_name")) \o " | "
        \o Strftime(Attr(campsite, "booking_date"))

\* variant: the caller's options are forwarded and win
SendOptionsForwarded(campsite, kwargs) ==
    [k \in {"title", "type"} \cup DOMAIN kwargs |->
        IF k \in DOMAIN kwargs THEN kwargs[k]
        ELSE IF k = "title" THEN PyStr(MessageTitle(campsite))
        ELSE PyStr("note")]

\* the keyword arguments send_campsites passes to send_message; its own
\* kwargs are not forwarded
SendOptions(campsite, kwargs) ==
    [k \in {"title", "type"} |->
        IF k = "title" THEN PyStr(MessageTitle(campsite)) ELSE PyStr("note")]

\* variant: the loop stops one record early
LoopDoneEarly(i, campsites) == i >= Len(campsites)

\* the for loop over campsites is exhausted
LoopDone(i, campsites) == i > Len(campsites)

\* variant: the exception of a send is caught and the loop goes on
BatchContinues(result) == FALSE

\* send_message is called outside any try block: its exception ends the loop
BatchAborts(result) == result.kind = "raise"

-----------------------------------------------------------------------------
(* Inputs *)

MaxBatch == 2

MaxOptions == 2

Messages == {"hello", "Site open"}

OptionKeys == {"type", "title", "url", "body", "message"}

OptionValue(k) ==
    CASE k = "type" -> "link"
      [] k = "title" -> "Alert"
      [] k = "url" -> "http://x"
      [] k = "body" -> "other body"
      [] k = "message" -> "other message"

Kwargs ==
    { [k \in S |-> PyStr(OptionValue(k))] :
        S \in {T \in SUBSET OptionKeys : Cardinality(T) <= MaxOptions} }

CampsiteKwargs == { [k \in S |-> PyStr(OptionValue(k))] : S \in {{}, {"type", "title"}} }

Campsites ==
    { AvailableCampsite(7, PyDatetime(2023, 6, 1), PyDatetime(2023, 6, 2), 1,
                        "A012", "Yosemite", "Upper Pines", "http://x"),
      AvailableCampsite(4521, PyDatetime(2024, 12, 31), PyDatetime(2025, 1, 2), 2,
                        "Loop B\nSite 07", "Glacier National Park", "Fish Creek",
                        "https://www.recreation.gov/camping/campsites/4521") }

Batches == UNION { [1..n -> Campsites] : n \in 0..MaxBatch }

-----------------------------------------------------------------------------
(* The state machine *)

Init ==
    /\ API_TOKEN \in Tokens
    /\ API_HEADERS = BaseHeaders
    /\ sender = "none"
    /\ pc = "idle"
    /\ call = [op |-> "none"]
    /\ idx = 0
    /\ posts = <<>>
    /\ replies = <<>>
    /\ trace = <<>>
    /\ outcome = NoOutcome

\* PushbulletNotifications()
Construct ==
    /\ pc = "idle"
    /\ LET r == Init__(API_TOKEN)
       IN  /\ sender' = IF r.outcome.kind = "raise" THEN "failed" ELSE "ok"
           /\ trace' = r.trace
           /\ outcome' = r.outcome
    /\ call' = [op |-> "__init__"]
    /\ idx' = 0
    /\ posts' = <<>>
    /\ replies' = <<>>
    /\ UNCHANGED <<API_TOKEN, API_HEADERS, pc>>

\* sender.send_message(message, **kwargs), on a sender that was constructed
CallSendMessage ==
    /\ pc = "idle"
    /\ sender = "ok"
    /\ \E message \in Messages, kwargs \in Kwargs, net \in NetResults :
          LET r == SendMessage(message, kwargs, API_HEADERS, API_TOKEN, net)
          IN  /\ call' = [op |-> "send_message", message |-> message, kwargs |-> kwargs]
              /\ posts' = r.posts
              /\ replies' = r.replies
              /\ trace' = r.trace
              /\ outcome' = r.outcome
              /\ API_HEADERS' = r.headers
    /\ idx' = 0
    /\ UNCHANGED <<API_TOKEN, sender, pc>>

\* sender.send_campsites(campsites, **kwargs), on a sender that was constructed: entry
CallSendCampsites ==
    /\ pc = "idle"
    /\ sender = "ok"
    /\ \E campsites \in Batches, kwargs \in CampsiteKwargs :
          call' = [op |-> "send_campsites", campsites |-> campsites, kwargs |-> kwargs]
    /\ pc' = "campsites"
    /\ idx' = 1
    /\ posts' = <<>>
    /\ replies' = <<>>
    /\ trace' = <<>>
    /\ outcome' = NoOutcome
    /\ UNCHANGED <<API_TOKEN, API_HEADERS, sender>>

\* one iteration of the for loop of send_campsites
CampsiteIteration ==
    /\ pc = "campsites"
    /\ ~LoopDone(idx, call.campsites)
    /\ \E net \in NetResults :
          LET campsite == call.campsites[idx]
              r == SendMessage(ComposedMessage(campsite), SendOptions(campsite, call.kwargs),
                               API_HEADERS, API_TOKEN, net)
          IN  /\ posts' = posts \o r.posts
              /\ replies' = replies \o r.replies
              /\ API_HEADERS' = r.headers
              /\ IF BatchAborts(r.outcome)
                 THEN /\ trace' = trace \o r.trace
                      /\ outcome' = r.outcome
                      /\ pc' = "idle"
                      /\ idx' = idx
                 ELSE /\ trace' = trace \o SubSeq(r.trace, 1, Len(r.trace) - 1)
                      /\ outcome' = outcome
                      /\ pc' = "campsites"
                      /\ idx' = idx + 1
    /\ UNCHANGED <<API_TOKEN, sender, call>>

\* the for loop of send_campsites is exhausted: the implicit return None
SendCampsitesReturn ==
    /\ pc = "campsites"
    /\ LoopDone(idx, call.campsites)
    /\ pc' = "idle"
    /\ trace' = Append(trace, "return")
    /\ outcome' = Return(PyNone)
    /\ UNCHANGED <<API_TOKEN, API_HEADERS, sender, call, idx, posts, replies>>

Next ==
    \/ Construct
    \/ CallSendMessage
    \/ CallSendCampsites
    \/ CampsiteIteration
    \/ SendCampsitesReturn

Spec == Init /\ [][Next]_vars

-----------------------------------------------------------------------------
(* Vocabulary of the properties *)

InSendMessage == call.op = "send_message"

InSendCampsites == call.op = "send_campsites"

\* the k-th request of the call came back with an HTTP response of that status range
RepliedWithStatus(k, lo, hi) ==
    /\ k \in 1..Len(replies)
    /\ replies[k].exc = ""
    /\ replies[k].response.status \in lo..hi

IsDeliveryErrorFor(response) ==
    /\ outcome.kind = "raise"
    /\ outcome.exc = "ConnectionError"
    /\ outcome.msg = response.text
    /\ outcome.cause = "requests.HTTPError"
    /\ outcome.value = PyNone

\* the lines of a text: its pieces between line breaks
Lines(s) ==
    LET breaks == {i \in 1..Len(s) : CharAt(s, i) = "\n"}
        n == Cardinality(breaks)
        Break(k) == CHOOSE p \in breaks : Cardinality({q \in breaks : q < p}) = k - 1
        First(j) == IF j = 1 THEN 1 ELSE Break(j - 1) + 1
        Last(j) == IF j = n + 1 THEN Len(s) ELSE Break(j) - 1
    IN  [j \in 1..(n + 1) |-> SubSeq(s, First(j), Last(j))]

\* YYYY-MM-DD, digit by digit
TwoDigits(n) == CharAt(Digits, (n \div 10) + 1) \o CharAt(Digits, (n % 10) + 1)

IsoDate(d) ==
    TwoDigits(d.year \div 100) \o TwoDigits(d.year % 100) \o "-" \o TwoDigits(d.month)
        \o "-" \o TwoDigits(d.day)

-----------------------------------------------------------------------------
(* C1 *)

\* C1, as stated: whenever the service answers the POST of send_message with a
\* status outside 2xx, the call fails with a DeliveryError carrying the
\* response text, chained to the HTTP-status error, after exactly one POST.
C1_NonSuccessAlwaysFails ==
    (InSendMessage /\ replies # <<>> /\ replies[1].exc = ""
        /\ replies[1].response.status \notin 200..299)
    => (IsDeliveryErrorFor(replies[1].response) /\ Len(posts) = 1)

\* C1, amended: whenever the service answers the POST of send_message with a
\* 4xx or 5xx status, the call fails with a DeliveryError whose message is the
\* response text and whose cause is the HTTP-status error, exactly one POST has
\* been issued and no response is returned; a response of any other status
\* (3xx included) is returned to the caller after that one POST.
C1_HttpErrorFails ==
    (InSendMessage /\ replies # <<>> /\ replies[1].exc = "")
    => /\ Len(posts) = 1
       /\ Len(replies) = 1
       /\ IF replies[1].response.status \in 400..599
          THEN IsDeliveryErrorFor(replies[1].response)
          ELSE outcome = Return(replies[1].response)

C1_Witness ==
    /\ InSendMessage
    /\ RepliedWithStatus(1, 401, 401)
    /\ outcome.kind = "raise"
    /\ outcome.msg = "Access token is missing or invalid."

-----------------------------------------------------------------------------
(* C2 *)

\* {type, title, body: text} with the defaults, merged with the extra options
DefaultJson(message) ==
    [k \in {"type", "title", "body"} |->
        CASE k = "type" -> PyStr("note")
          [] k = "title" -> PyStr("Camply Notification")
          [] k = "body" -> PyStr(message)]

MergedJson(message, kwargs) ==
    [k \in {"type", "title", "body"} \cup DOMAIN kwargs |->
        IF k \in DOMAIN kwargs /\ k # "body" THEN kwargs[k] ELSE DefaultJson(message)[k]]

\* C2, as stated: for every message and every set of extra options, keys named
\* like the reserved ones (type, title, body) included, send_message issues
\* exactly one POST whose JSON payload is {type, title, body: text} merged with
\* the options. (Stated here for options that can be passed at all, those not
\* repeating the parameter name `message`.)
C2_AnyOptionsOnePost ==
    (InSendMessage /\ "message" \notin DOMAIN call.kwargs)
    => (Len(posts) = 1 /\ posts[1].json = MergedJson(call.message, call.kwargs))

\* C2, amended: for every message and every set of extra options that names
\* neither `body` nor `message`, send_message issues exactly one POST whose JSON
\* payload is {type, title, body: text} merged with the options, type
\* defaulting to "note" and title to "Camply Notification"; with an option
\* named `body` or `message` the call fails with a TypeError and issues no POST.
C2_PayloadMerged ==
    InSendMessage
    => IF DOMAIN call.kwargs \cap {"body", "message"} = {}
       THEN /\ Len(posts) = 1
            /\ posts[1].url = PUSHBULLET_API_ENDPOINT
            /\ posts[1].json = MergedJson(call.message, call.kwargs)
       ELSE /\ posts = <<>>
            /\ outcome.kind = "raise"
            /\ outcome.exc = "TypeError"

C2_Witness ==
    /\ InSendMessage
    /\ DOMAIN call.kwargs = {"title", "url"}
    /\ Len(posts) = 1
    /\ DOMAIN posts[1].json = {"type", "title", "body", "url"}
    /\ posts[1].json["type"] = PyStr("note")
    /\ posts[1].json["title"] = PyStr("Alert")

-----------------------------------------------------------------------------
(* C3 *)

\* the i-th request of a send_campsites call is the one for the i-th record
PostIsForRecord(i) ==
    /\ posts[i].json["body"] = PyStr(ComposedMessage(call.campsites[i]))
    /\ posts[i].json["title"] = PyStr(MessageTitle(call.campsites[i]))

\* C3: when send_campsites returns, every send having succeeded, it has issued
\* exactly one POST per record of the batch, in the order of the batch, and
\* none for the empty batch; while it runs, the records before the loop
\* position have had their POST and no other record has.
C3_OnePostPerRecord ==
    InSendCampsites
    => /\ (outcome.kind = "return" =>
              /\ Len(posts) = Len(call.campsites)
              /\ (call.campsites = <<>> => posts = <<>>))
       /\ (pc = "campsites" => Len(posts) = idx - 1)
       /\ Len(posts) <= Len(call.campsites)
       /\ \A i \in 1..Len(posts) : PostIsForRecord(i)

C3_Witness ==
    /\ InSendCampsites
    /\ outcome.kind = "return"
    /\ Len(call.campsites) = 2
    /\ call.campsites[1] # call.campsites[2]
    /\ Len(posts) = 2

-----------------------------------------------------------------------------
(* C4 *)

\* C4: in send_campsites, once the send for the k-th record has failed on an
\* HTTP error status, the DeliveryError has reached the caller, the loop is
\* over, exactly k POSTs were issued, for records 1..k in order, and no record
\* after the k-th gets a POST.
C4_AbortsOnFirstFailure ==
    InSendCampsites
    => \A k \in 1..Len(replies) :
          RepliedWithStatus(k, 400, 599)
          => /\ pc = "idle"
             /\ IsDeliveryErrorFor(replies[k].response)
             /\ idx = k
             /\ Len(posts) = k
             /\ Len(replies) = k
             /\ \A i \in 1..k : PostIsForRecord(i)

C4_Witness ==
    /\ InSendCampsites
    /\ Len(call.campsites) = 2
    /\ RepliedWithStatus(1, 500, 500)
    /\ Len(posts) = 1
    /\ outcome.kind = "raise"

-----------------------------------------------------------------------------
(* C5 *)

\* C5: constructing the sender with an absent (None) or empty access token
\* fails with the configuration error (EnvironmentError) and leaves no usable
\* sender; with a non-empty token it succeeds; neither issues a request.
C5_ConstructionChecksToken ==
    call.op = "__init__"
    => /\ posts = <<>>
       /\ replies = <<>>
       /\ IF API_TOKEN = PyNone \/ (API_TOKEN.t = "str" /\ Len(API_TOKEN.s) = 0)
          THEN /\ outcome.kind = "raise"
               /\ outcome.exc = "EnvironmentError"
               /\ sender = "failed"
          ELSE /\ outcome = Return(PyNone)
               /\ sender = "ok"

C5_Witness ==
    /\ call.op = "__init__"
    /\ API_TOKEN = PyStr("")
    /\ outcome.exc = "EnvironmentError"

-----------------------------------------------------------------------------
(* C6 *)

\* the text of the body of the i-th request
BodyOf(i) == posts[i].json["body"].s

\* line j of the body is the rendering of field j of the record
LinePerField(i) ==
    LET campsite == call.campsites[i]
        lines == Lines(BodyOf(i))
    IN  /\ Len(lines) = Len(campsite)
        /\ \A j \in 1..Len(campsite) : lines[j] = FieldLine(campsite[j])

\* no value of the record renders to a text that holds a line break
SingleLineValues(campsite) ==
    \A j \in 1..Len(campsite) : IndexIn("\n", Format(campsite[j].value)) = 0

\* C6, as stated: for every record sent by send_campsites the body has exactly
\* one line per field, the i-th line being that of the i-th field.
C6_LinePerFieldAlways ==
    InSendCampsites => \A i \in 1..Len(posts) : LinePerField(i)

\* C6, amended: for every record sent by send_campsites none of whose values
\* renders to a text containing a line break, the body has exactly one line
\* per field, the i-th line being that of the i-th field: no field is dropped,
\* duplicated or reordered. (A value containing a line break is rendered
\* verbatim and spreads its field over several lines.)
C6_LinePerField ==
    InSendCampsites
    => \A i \in 1..Len(posts) :
          /\ SingleLineValues(call.campsites[i]) => LinePerField(i)
          /\ BodyOf(i) = StrJoin(Fields(call.campsites[i]), "\n")

C6_Witness ==
    /\ InSendCampsites
    /\ Len(posts) = 2
    /\ SingleLineValues(call.campsites[2])
    /\ Len(Lines(BodyOf(2))) = 8
    /\ Lines(BodyOf(2))[8] = "Booking Link: http://x"

-----------------------------------------------------------------------------
(* C7 *)

ExpectedLabel(key) ==
    CASE key = "campsite_id" -> "Campsite Id"
      [] key = "booking_date" -> "Booking Date"
      [] key = "booking_end_date" -> "Booking End Date"
      [] key = "booking_nights" -> "Booking Nights"
      [] key = "campsite_site_name" -> "Campsite Site Name"
      [] key = "recreation_area" -> "Recreation Area"
      [] key = "facility_name" -> "Facility Name"
      [] key = "booking_url" -> "Booking Link"

ExpectedText(item) ==
    IF item.key \in {"booking_date", "booking_end_date"}
    THEN IsoDate(item.value)
    ELSE CASE item.value.t = "str" -> item.value.s
           [] item.value.t = "int" -> IntToStr(item.value.n)

ExpectedLine(item) == ExpectedLabel(item.key) \o ": " \o ExpectedText(item)

\* C7: in the body built by send_campsites, booking_url is labelled "Booking
\* Link", the values of booking_date and booking_end_date are rendered as
\* YYYY-MM-DD under the labels "Booking Date" and "Booking End Date", and
\* every other field keeps its value under its name in Title Case.
C7_LabelsAndValues ==
    InSendCampsites
    => \A i \in 1..Len(posts) :
          BodyOf(i) = StrJoin([j \in 1..Len(call.campsites[i]) |->
                                  ExpectedLine(call.campsites[i][j])], "\n")

C7_Witness ==
    /\ InSendCampsites
    /\ Len(posts) = 1
    /\ Lines(BodyOf(1))[2] = "Booking Date: 2023-06-01"
    /\ Lines(BodyOf(1))[3] = "Booking End Date: 2023-06-02"
    /\ Lines(BodyOf(1))[7] = "Facility Name: Upper Pines"
    /\ Lines(BodyOf(1))[8] = "Booking Link: http://x"

-----------------------------------------------------------------------------
(* C8 *)

\* C8: every POST of send_campsites carries type "note", the title
\* "<recreation_area> | <facility_name> | <booking_date as YYYY-MM-DD>" of its
\* own record and no key besides type, title and body, whatever options the
\* caller passed to send_campsites.
C8_TitleAndType ==
    InSendCampsites
    => \A i \in 1..Len(posts) :
          LET campsite == call.campsites[i]
          IN  /\ DOMAIN posts[i].json = {"type", "title", "body"}
              /\ posts[i].json["type"] = PyStr("note")
              /\ posts[i].json["title"] =
                    PyStr(Attr(campsite, "recreation_area").s \o " | "
                          \o Attr(campsite, "facility_name").s \o " | "
                          \o IsoDate(Attr(campsite, "booking_date")))

C8_Witness ==
    /\ InSendCampsites
    /\ DOMAIN call.kwargs = {"type", "title"}
    /\ Len(posts) = 1
    /\ posts[1].json["title"] = PyStr("Yosemite | Upper Pines | 2023-06-01")
    /\ posts[1].json["type"] = PyStr("note")

-----------------------------------------------------------------------------
(* C9 *)

\* the error reached the caller right after an error or warning log line
LoggedThenRaised ==
    /\ Len(trace) >= 2
    /\ trace[Len(trace)] = "raise"
    /\ trace[Len(trace) - 1] \in {"log.error", "log.warning"}

HasFailureLog == \E i \in 1..Len(trace) : trace[i] \in {"log.error", "log.warning"}

\* C9, as stated: a construction failure, a non-success HTTP response and a
\* transport-level failure of the HTTP call are each logged at error or warning
\* level before the error reaches the caller.
C9_AllFailuresLogged ==
    (outcome.kind = "raise"
        /\ outcome.exc \in {"EnvironmentError", "ConnectionError"} \cup TransportErrors)
    => LoggedThenRaised

\* C9, amended: a construction failure and an HTTP error status (4xx, 5xx) are
\* logged at error or warning level before the error reaches the caller, and
\* a logged failure always reaches the caller; a transport-level failure of the
\* HTTP call reaches the caller too, but no error or warning line is logged
\* for it.
C9_ConfigAndHttpFailuresLogged ==
    /\ (outcome.kind = "raise" /\ outcome.exc \in {"EnvironmentError", "ConnectionError"})
       => LoggedThenRaised
    /\ (replies # <<>> /\ replies[Len(replies)].exc # "")
       => (outcome = Raise(replies[Len(replies)].exc, "", "") /\ ~HasFailureLog)
    /\ HasFailureLog => (outcome.kind = "raise" /\ pc = "idle")

C9_Witness ==
    /\ outcome.kind = "raise"
    /\ outcome.exc = "ConnectionError"
    /\ trace = <<"log.debug", "post", "log.warning", "raise">>

-----------------------------------------------------------------------------
(* C10 *)

ExpectedHeaders ==
    [k \in {"Content-Type", "Access-Token"} |->
        IF k = "Access-Token" THEN API_TOKEN ELSE PyStr("application/json")]

\* C10: no step of any call, successful or failed, changes the access token or
\* the configured base headers, which never gain an Access-Token entry, and
\* every request issued carries the base headers plus {Access-Token: token}.
C10_ConfigurationImmutable ==
    [][ /\ API_TOKEN' = API_TOKEN
        /\ API_HEADERS' = API_HEADERS
        /\ API_HEADERS' = BaseHeaders
        /\ "Access-Token" \notin DOMAIN API_HEADERS'
        /\ \A i \in 1..Len(posts') : posts'[i].headers = ExpectedHeaders ]_vars

C10_Witness ==
    /\ InSendCampsites
    /\ Len(posts) = 2
    /\ outcome.kind = "raise"
    /\ posts[2].headers = ExpectedHeaders
    /\ API_HEADERS = BaseHeaders

====
